---- MODULE Spec2Model ----
(***************************************************************************)
(* Model of app/schedule_explorer/backend/gtfs_precache.c: the stop_times  *)
(* transcoder (CSV text -> MessagePack buffer -> output file).             *)
(*                                                                         *)
(* Text is modelled at character level: a C string is a sequence of        *)
(* one-character strings; reading past its end yields NUL.  The MessagePack*)
(* buffer is modelled at item level: one element per msgpack_pack_* call   *)
(* (a str header and its body count as one item).                          *)
(***************************************************************************)
EXTENDS Integers, Sequences, FiniteSets, TLC

\* ------------------------------------------------------------------ bounds
\* Largest number of data rows (physical lines after the header) of an input.
MaxRows == 2

\* ------------------------------------------------------- program constants
\* char* fields[10] / parse_csv_line(line, fields, 10)
max_fields == 10
\* process_line: "We need at least 5 fields"
min_fields == 5
\* sizeof(StopTime.trip_id), sizeof(StopTime.stop_id)
id_size == 64
\* sizeof(StopTime.arrival_time), sizeof(StopTime.departure_time)
time_size == 16
\* INT_MAX of <limits.h>, the bound process_line tests seq against
INT_MAX == 2147483647

\* ------------------------------------------------------------- C strings
NUL == "NUL"
QUOTE == "\""
COMMA == ","
LF == "\n"
CR == "\r"
SPACE == " "
TAB == "\t"

\* *(s + i - 1) of a NUL-terminated string held in sequence s (1-based i).
At(s, i) == IF i >= 1 /\ i <= Len(s) THEN s[i] ELSE NUL

\* The text between two positions of the buffer, b inclusive, e exclusive.
Slice(s, b, e) == SubSeq(s, b, e - 1)

Digits == <<"0", "1", "2", "3", "4", "5", "6", "7", "8", "9">>

IsDigit(c) == \E d \in 1..10 : Digits[d] = c

DigitVal(c) == (CHOOSE d \in 1..10 : Digits[d] = c) - 1

\* isspace() of the C locale, as strtol uses it to skip leading white space.
IsSpace(c) == c \in {SPACE, TAB, LF, CR, "\f"}

\* --------------------------------------------------------- parse_csv_line
\* while (*start == ' ' || *start == '\t') start++;
RECURSIVE SkipBlanks(_, _)
SkipBlanks(line, i) ==
    IF At(line, i) \in {SPACE, TAB} THEN SkipBlanks(line, i + 1) ELSE i

\* The closing-quote search: stops at the first quote not followed by a
\* quote, or at the terminating NUL.
RECURSIVE FindClosingQuote(_, _)
FindClosingQuote(line, e) ==
    IF At(line, e) = NUL THEN e
    ELSE IF At(line, e) = QUOTE
         THEN IF At(line, e + 1) = QUOTE
              THEN FindClosingQuote(line, e + 2)
              ELSE e
         ELSE FindClosingQuote(line, e + 1)

\* while (*start && *start != ',') start++;  if (*start == ',') start++;
RECURSIVE SkipToDelimiter(_, _)
SkipToDelimiter(line, i) ==
    IF At(line, i) = NUL THEN i
    ELSE IF At(line, i) = COMMA THEN i + 1
    ELSE SkipToDelimiter(line, i + 1)

\* while (*end && *end != ',' && *end != '\n' && *end != '\r') end++;
RECURSIVE FindFieldEnd(_, _)
FindFieldEnd(line, e) ==
    IF At(line, e) \in {NUL, COMMA, LF, CR} THEN e
    ELSE FindFieldEnd(line, e + 1)

\* One turn of the outer loop of parse_csv_line from position start with the
\* fields found so far; the result is the list of field texts.
RECURSIVE ParseFields(_, _, _)
ParseFields(line, start, fields) ==
    IF At(line, start) = NUL \/ Len(fields) >= max_fields THEN fields
    ELSE LET s == SkipBlanks(line, start) IN
         IF At(line, s) = QUOTE
         THEN LET b == s + 1
                  e == FindClosingQuote(line, b)
                  after == IF At(line, e) = QUOTE THEN e + 1 ELSE e
              IN  ParseFields(line, SkipToDelimiter(line, after),
                              Append(fields, Slice(line, b, e)))
         ELSE LET e == FindFieldEnd(line, s)
                  next == IF At(line, e) # NUL THEN e + 1 ELSE e
              IN  ParseFields(line, next, Append(fields, Slice(line, s, e)))

parse_csv_line(line) == ParseFields(line, 1, <<>>)

\* ------------------------------------------------------------------ strtol
\* The digit run of strtol from position i: <<magnitude, big, end>>, where
\* big says the magnitude exceeds INT_MAX (the only fact the caller uses of a
\* value that large) and end is the position of the first non-digit.
RECURSIVE ScanDigits(_, _, _, _)
ScanDigits(s, i, mag, big) ==
    IF ~IsDigit(At(s, i)) THEN <<mag, big, i>>
    ELSE LET d == DigitVal(At(s, i)) IN
         IF big \/ mag > (INT_MAX - d) \div 10
         THEN ScanDigits(s, i + 1, mag, TRUE)
         ELSE ScanDigits(s, i + 1, mag * 10 + d, FALSE)

RECURSIVE SkipSpace(_, _)
SkipSpace(s, i) == IF IsSpace(At(s, i)) THEN SkipSpace(s, i + 1) ELSE i

\* strtol(s, &endptr, 10): white space, an optional sign, decimal digits.
\* With no digit at all the value is 0 and endptr is s itself.
strtol(s) ==
    LET p == SkipSpace(s, 1)
        signed == At(s, p) \in {"-", "+"}
        q == IF signed THEN p + 1 ELSE p
        run == ScanDigits(s, q, 0, FALSE)
        none == run[3] = q
    IN  [neg |-> ~none /\ At(s, p) = "-",
         mag |-> IF none THEN 0 ELSE run[1],
         big |-> ~none /\ run[2],
         endptr |-> IF none THEN s ELSE Slice(s, run[3], Len(s) + 1)]

\* if (*endptr != '\0' || seq < 0 || seq > INT_MAX)  -- the rejecting test
seq_invalid(r) ==
    \/ r.endptr # <<>>
    \/ r.neg /\ (r.big \/ r.mag > 0)
    \/ ~r.neg /\ r.big

\* ------------------------------------------------------------ MessagePack
k_trip_id == <<"t", "r", "i", "p", "_", "i", "d">>
k_stop_id == <<"s", "t", "o", "p", "_", "i", "d">>
k_arrival_time == <<"a", "r", "r", "i", "v", "a", "l", "_", "t", "i", "m", "e">>
k_departure_time ==
    <<"d", "e", "p", "a", "r", "t", "u", "r", "e", "_", "t", "i", "m", "e">>
k_stop_sequence ==
    <<"s", "t", "o", "p", "_", "s", "e", "q", "u", "e", "n", "c", "e">>
k_stop_times == <<"s", "t", "o", "p", "_", "t", "i", "m", "e", "s">>

msgpack_map(n) == [k |-> "map", n |-> n]
msgpack_array(n) == [k |-> "array", n |-> n]
\* msgpack_pack_str(pk, strlen(s)) followed by msgpack_pack_str_body(pk, s, ..)
msgpack_str(s) == [k |-> "str", s |-> s]
msgpack_int32(v) == [k |-> "int32", v |-> v]

\* A write that puts the new bytes in front of those already in the buffer.
msgpack_sbuffer_write_in_front(buf, items) == items \o buf

\* msgpack_sbuffer_write: the bytes are appended at the end of the buffer.
msgpack_sbuffer_write(buf, items) == buf \o items

\* ------------------------------------------------------------ process_line
\* The 0-based columns process_line reads trip_id, stop_id, arrival_time,
\* departure_time and stop_sequence from (in the order of column_names).
process_line_columns == <<0, 3, 1, 2, 4>>

\* The items process_line packs for a row that passed its two tests: the
\* fields are taken by position, fields[0] under trip_id, fields[1] under
\* arrival_time, fields[2] under departure_time, fields[3] under stop_id.
RecordItems(fields, seq) ==
    << msgpack_map(5),
       msgpack_str(k_trip_id), msgpack_str(fields[1]),
       msgpack_str(k_arrival_time), msgpack_str(fields[2]),
       msgpack_str(k_departure_time), msgpack_str(fields[3]),
       msgpack_str(k_stop_id), msgpack_str(fields[4]),
       msgpack_str(k_stop_sequence), msgpack_int32(seq) >>

\* process_line packing the record's map header before it tests the
\* stop_sequence: a row rejected for its stop_sequence leaves the header.
process_line_pack_first(line) ==
    LET fields == parse_csv_line(line) IN
    IF Len(fields) < min_fields THEN [ret |-> -1, items |-> <<>>]
    ELSE LET r == strtol(fields[5]) IN
         IF seq_invalid(r) THEN [ret |-> -1, items |-> <<msgpack_map(5)>>]
         ELSE [ret |-> 0, items |-> RecordItems(fields, r.mag)]

\* process_line(line, pk): [ret, items], the return value and what it has
\* appended to the buffer.
process_line(line) ==
    LET fields == parse_csv_line(line) IN
    IF Len(fields) < min_fields THEN [ret |-> -1, items |-> <<>>]
    ELSE LET r == strtol(fields[5]) IN
         IF seq_invalid(r) THEN [ret |-> -1, items |-> <<>>]
         ELSE [ret |-> 0, items |-> RecordItems(fields, r.mag)]

\* ------------------------------------------------------ get_column_indices
\* strtok_r(rest, ",", &rest): the maximal comma-free runs of the text, in
\* order; empty runs between adjacent commas are skipped.
RECURSIVE Tokens(_, _, _)
Tokens(s, i, cur) ==
    IF i > Len(s) THEN (IF cur = <<>> THEN <<>> ELSE <<cur>>)
    ELSE IF s[i] = COMMA
         THEN (IF cur = <<>> THEN <<>> ELSE <<cur>>) \o Tokens(s, i + 1, <<>>)
         ELSE Tokens(s, i + 1, Append(cur, s[i]))

\* while (*token == ' ' || *token == '"') token++;
RECURSIVE StripLeading(_)
StripLeading(t) ==
    IF t # <<>> /\ Head(t) \in {SPACE, QUOTE}
    THEN StripLeading(Tail(t)) ELSE t

\* while (end > token && (*end is ' ', '"', '\n' or '\r')) end--;
RECURSIVE StripTrailing(_)
StripTrailing(t) ==
    IF Len(t) > 1 /\ t[Len(t)] \in {SPACE, QUOTE, LF, CR}
    THEN StripTrailing(SubSeq(t, 1, Len(t) - 1)) ELSE t

HeaderTokens(header) ==
    LET raw == Tokens(header, 1, <<>>)
    IN  [c \in 1..Len(raw) |-> StripTrailing(StripLeading(raw[c]))]

\* const char* column_names[] of get_column_indices, in indices[] order.
column_names ==
    <<k_trip_id, k_stop_id, k_arrival_time, k_departure_time, k_stop_sequence>>

\* get_column_indices(header, indices): indices[i] is the 0-based column of
\* the last header token equal to column_names[i], or -1; ret is -1 when an
\* index is -1.
get_column_indices(header) ==
    LET toks == HeaderTokens(header)
        Col(name) ==
            LET hits == {c \in 1..Len(toks) : toks[c] = name}
            IN  IF hits = {} THEN -1
                ELSE (CHOOSE c \in hits : \A d \in hits : d <= c) - 1
        idx == [i \in 1..5 |-> Col(column_names[i])]
    IN  [ret |-> IF \E i \in 1..5 : idx[i] = -1 THEN -1 ELSE 0,
         indices |-> idx]

\* ------------------------------------------------------------------- fgets
\* char line[1024] of process_stop_times
line_size == 1024

\* fgets(line, sizeof(line), fp) over one physical line (its terminator
\* included): pieces of at most sizeof(line) - 1 characters.
RECURSIVE Chunks(_)
Chunks(text) ==
    IF text = <<>> THEN <<>>
    ELSE IF Len(text) <= line_size - 1 THEN <<text>>
    ELSE <<SubSeq(text, 1, line_size - 1)>>
         \o Chunks(SubSeq(text, line_size, Len(text)))

\* All the lines successive fgets calls return for a file made of the
\* physical lines phys, the last one ending in a newline only if nl.
RECURSIVE fgets_lines(_, _)
fgets_lines(phys, nl) ==
    IF phys = <<>> THEN <<>>
    ELSE Chunks(Head(phys) \o (IF Len(phys) > 1 \/ nl THEN <<LF>> ELSE <<>>))
         \o fgets_lines(Tail(phys), nl)

\* size_t total_lines: total_lines-- on 0 wraps to SIZE_MAX (2^64 - 1), which
\* is kept as a symbol.
SIZE_MAX == "SIZE_MAX"
size_t_dec(n) == IF n = 0 THEN SIZE_MAX ELSE n - 1

\* ------------------------------------------------------------- input texts
f_T1 == <<"T", "1">>
f_T2 == <<"T", "2">>
f_S1 == <<"S", "1">>
f_S2 == <<"S", "2">>
f_0800 == <<"0", "8", ":", "0", "0", ":", "0", "0">>
f_0801 == <<"0", "8", ":", "0", "1", ":", "0", "0">>
f_0900 == <<"0", "9", ":", "0", "0", ":", "0", "0">>
f_0901 == <<"0", "9", ":", "0", "1", ":", "0", "0">>

RECURSIVE Join(_)
Join(fs) ==
    IF Len(fs) = 0 THEN <<>>
    ELSE IF Len(fs) = 1 THEN fs[1]
    ELSE fs[1] \o <<COMMA>> \o Join(Tail(fs))

\* The header whose order is the one process_line takes the fields in.
HeaderPositional ==
    Join(<<k_trip_id, k_arrival_time, k_departure_time, k_stop_id,
           k_stop_sequence>>)
\* The five names in the order of column_names.
HeaderCanonical == Join(column_names)
\* A header without stop_sequence.
HeaderMissing ==
    Join(<<k_trip_id, k_stop_id, k_arrival_time, k_departure_time>>)

Headers == {HeaderPositional, HeaderCanonical, HeaderMissing}

\* Data rows (physical lines without their terminator).
RowGood == Join(<<f_T1, f_0800, f_0801, f_S1, <<"3">>>>)
RowCanonical == Join(<<f_T2, f_S2, f_0900, f_0901, <<"4">>>>)
RowQuotedComma ==
    Join(<<<<QUOTE, "T", COMMA, "1", QUOTE>>, f_0800, f_0801, f_S1, <<"5">>>>)
RowFewFields == Join(<<f_T1, f_S1>>)
RowNonNumeric == Join(<<f_T1, f_0800, f_0801, f_S1, <<"3", "x">>>>)
RowNegative == Join(<<f_T1, f_0800, f_0801, f_S1, <<"-", "1">>>>)
RowEmptySeq == Join(<<f_T1, f_0800, f_0801, f_S1, <<>>>>)
RowLongTrip ==
    Join(<<[i \in 1..id_size |-> "x"], f_0800, f_0801, f_S1, <<"6">>>>)
RowLongTime ==
    Join(<<f_T1, [i \in 1..time_size |-> "0"], f_0801, f_S1, <<"7">>>>)
RowOpenQuoteFirst ==
    <<QUOTE>> \o Join(<<f_T1, f_0800, f_0801, f_S1, <<"3">>>>)
RowOpenQuoteFifth == Join(<<f_T1, f_0800, f_0801, f_S1, <<QUOTE, "8">>>>)
RowOpenQuoteSixth ==
    Join(<<f_T1, f_0800, f_0801, f_S1, <<"9">>, <<QUOTE, "x">>>>)
\* A physical line longer than the line buffer: fgets returns it in two
\* pieces, the first holding ten whole fields and the start of an eleventh,
\* the second the rest of the eleventh.
RowBeyondBuffer ==
    Join(<<f_T1, f_0800, f_0801, f_S1, <<"3">>, <<"a">>, <<"b">>, <<"c">>,
           <<"d">>, <<"e">>, [i \in 1..line_size |-> "x"]>>)

Rows ==
    {RowGood, RowCanonical, RowQuotedComma, RowFewFields, RowNonNumeric,
     RowNegative, RowEmptySeq, RowLongTrip, RowLongTime, RowOpenQuoteFirst,
     RowOpenQuoteFifth, RowOpenQuoteSixth}

RECURSIVE SeqsUpTo(_, _)
SeqsUpTo(S, n) ==
    IF n = 0 THEN {<<>>}
    ELSE LET shorter == SeqsUpTo(S, n - 1)
         IN  shorter \cup {Append(q, x) : q \in {r \in shorter : Len(r) = n - 1},
                                          x \in S}

\* The input files: an empty file, or a header followed by up to MaxRows rows.
Files ==
    {<<>>} \cup {<<h>> \o rows : h \in Headers, rows \in SeqsUpTo(Rows, MaxRows)}

\* Input files with physical lines longer than the line buffer among rows
\* that are accepted and rows that are rejected.
FilesBeyondBuffer ==
    {<<>>} \cup
    {<<h>> \o rows :
        h \in Headers,
        rows \in SeqsUpTo({RowGood, RowFewFields, RowNonNumeric,
                           RowBeyondBuffer}, MaxRows)}

\* ------------------------------------------------------------ output path
NoFile == [exists |-> FALSE, data |-> <<>>]
OldFile == [exists |-> TRUE, data |-> <<msgpack_str(<<"o", "l", "d">>)>>]

\* The byte counts fwrite may report for a buffer of n items: nothing, a
\* part, all of it.
WriteCounts(n) == {0, n \div 2, n}

\* ---------------------------------------------------- governor constants
\* Times are whole milliseconds.
\* #define DEFAULT_CPU_LIMIT 50
DEFAULT_CPU_LIMIT == 50
\* if (now - last_check < 0.1) return;  -- 0.1 s
check_interval_ms == 100
\* if (debug_counter >= 100)
debug_period == 100
\* The wall clock is followed up to this time.
MaxClock == 400

\* ------------------------------------------------------------------ state
VARIABLES
    file,          \* the input file: its physical lines, header first
    finalNewline,  \* whether the last physical line ends in a newline
    out,           \* the output path: [exists, data]
    pc,            \* position in process_stop_times
    fpos,          \* fp: number of fgets lines consumed since the last rewind
    total_lines,   \* size_t total_lines
    processed,     \* size_t processed
    successful,    \* size_t successful
    buffer,        \* msgpack_sbuffer* buffer: the items packed so far
    calls,         \* the calls made by the latest turn of the streaming loop
    result,        \* the value process_stop_times returned (-1: not yet)
    cpu_limit,     \* int cpu_limit of main, the argument of limit_cpu
    now,           \* get_timestamp(): the monotonic wall clock
    cpu,           \* get_cpu_time(): the user CPU time of the process
    last_check,    \* static double last_check of limit_cpu
    last_cpu_time, \* static double last_cpu_time of limit_cpu
    debug_counter, \* static int debug_counter of limit_cpu
    measured,      \* <<time_diff, real_diff>> of the latest usage computation
    last_call      \* what the latest call of limit_cpu did:
                   \* "none", "skipped", "observed" or "slept"

pipelineVars ==
    <<file, finalNewline, out, pc, fpos, total_lines, processed, successful,
      buffer, calls, result>>

governorVars ==
    <<cpu_limit, now, cpu, last_check, last_cpu_time, debug_counter, measured,
      last_call>>

vars == <<pipelineVars, governorVars>>

\* The statics of limit_cpu as the program starts, before any call.
GovernorStatics ==
    /\ last_check = 0
    /\ last_cpu_time = 0
    /\ debug_counter = 0
    /\ measured = <<0, 0>>
    /\ last_call = "none"

\* The lines fgets delivers for the input file.
Lines == fgets_lines(file, finalNewline)

Init ==
    /\ file \in Files
    /\ finalNewline \in BOOLEAN
    /\ out \in {NoFile, OldFile}
    /\ pc = "open"
    /\ fpos = 0
    /\ total_lines = 0
    /\ processed = 0
    /\ successful = 0
    /\ buffer = <<>>
    /\ calls = <<>>
    /\ result = -1
    /\ cpu_limit = DEFAULT_CPU_LIMIT
    /\ now = 0
    /\ cpu = 0
    /\ GovernorStatics

\* return r from process_stop_times
Return(r) == pc' = "done" /\ result' = r

\* FILE* fp = fopen(input_file, "r"); if (!fp) return 1;
OpenInput ==
    /\ pc = "open"
    /\ \E opened \in BOOLEAN :
          IF opened THEN pc' = "count" /\ result' = result ELSE Return(1)
    /\ UNCHANGED governorVars
    /\ UNCHANGED <<file, finalNewline, out, fpos, total_lines, processed,
                   successful, buffer, calls>>

\* The counting pass counting physical lines instead of fgets calls.
CountLines_physical ==
    /\ pc = "count"
    /\ total_lines' = size_t_dec(Len(file))
    /\ fpos' = Len(Lines)
    /\ pc' = "header"
    /\ UNCHANGED governorVars
    /\ UNCHANGED <<file, finalNewline, out, processed, successful, buffer,
                   calls, result>>

\* while (fgets(line, sizeof(line), fp)) total_lines++;  total_lines--;
CountLines ==
    /\ pc = "count"
    /\ total_lines' = size_t_dec(Len(Lines))
    /\ fpos' = Len(Lines)
    /\ pc' = "header"
    /\ UNCHANGED governorVars
    /\ UNCHANGED <<file, finalNewline, out, processed, successful, buffer,
                   calls, result>>

\* rewind(fp); if (!fgets(line, sizeof(line), fp)) { fclose(fp); return 1; }
\* The header line is read and not looked at.
SkipHeader ==
    /\ pc = "header"
    /\ IF Len(Lines) = 0
       THEN Return(1) /\ fpos' = 0
       ELSE pc' = "setup" /\ fpos' = 1 /\ result' = result
    /\ UNCHANGED governorVars
    /\ UNCHANGED <<file, finalNewline, out, total_lines, processed,
                   successful, buffer, calls>>

\* msgpack_sbuffer_new, msgpack_packer_new, then the envelope: the root map
\* of one entry, the key "stop_times", the array header of total_lines
\* elements; processed = successful = 0.  A failed allocation returns 1.
PackEnvelope ==
    /\ pc = "setup"
    /\ \E allocated \in BOOLEAN :
          IF allocated
          THEN /\ buffer' = msgpack_sbuffer_write(<<>>,
                               <<msgpack_map(1), msgpack_str(k_stop_times),
                                 msgpack_array(total_lines)>>)
               /\ pc' = "stream"
               /\ result' = result
          ELSE Return(1) /\ buffer' = buffer
    /\ processed' = 0
    /\ successful' = 0
    /\ UNCHANGED governorVars
    /\ UNCHANGED <<file, finalNewline, out, fpos, total_lines, calls>>

\* The streaming turn as it would be if a rejected row ended the run: on a
\* non-zero return of process_line it leaves through cleanup and returns 1.
StreamRow_abort_on_reject ==
    /\ pc = "stream"
    /\ fpos < Len(Lines)
    /\ LET r == process_line(Lines[fpos + 1]) IN
          /\ buffer' = msgpack_sbuffer_write(buffer, r.items)
          /\ successful' = IF r.ret = 0 THEN successful + 1 ELSE successful
          /\ IF r.ret = 0
             THEN /\ pc' = pc /\ result' = result
                  /\ processed' = processed + 1
             ELSE Return(1) /\ processed' = processed
    /\ fpos' = fpos + 1
    /\ calls' = <<"fgets", "process_line", "time">>
    /\ UNCHANGED governorVars
    /\ UNCHANGED <<file, finalNewline, out, total_lines>>

\* One turn of while (fgets(line, sizeof(line), fp)) with a line read:
\* process_line, successful++ on 0, processed++, then the progress report,
\* which reads the clock with time(NULL) and prints (to stdout only) when a
\* second has passed since the last report.
StreamRow ==
    /\ pc = "stream"
    /\ fpos < Len(Lines)
    /\ LET r == process_line(Lines[fpos + 1]) IN
          /\ buffer' = msgpack_sbuffer_write(buffer, r.items)
          /\ successful' = IF r.ret = 0 THEN successful + 1 ELSE successful
    /\ processed' = processed + 1
    /\ fpos' = fpos + 1
    /\ calls' = <<"fgets", "process_line", "time">>
    /\ UNCHANGED governorVars
    /\ UNCHANGED <<file, finalNewline, out, pc, total_lines, result>>

\* fgets returns NULL: the loop ends.
EndOfInput ==
    /\ pc = "stream"
    /\ fpos = Len(Lines)
    /\ calls' = <<"fgets">>
    /\ pc' = "open_out"
    /\ UNCHANGED governorVars
    /\ UNCHANGED <<file, finalNewline, out, fpos, total_lines, processed,
                   successful, buffer, result>>

\* FILE* out = fopen(output_file, "wb"); if (!out) goto cleanup;
\* Opening with "wb" creates the file or truncates it to length zero.
OpenOutput ==
    /\ pc = "open_out"
    /\ \E opened \in BOOLEAN :
          IF opened
          THEN /\ out' = [exists |-> TRUE, data |-> <<>>]
               /\ pc' = "fwrite"
               /\ result' = result
          ELSE Return(1) /\ out' = out
    /\ UNCHANGED governorVars
    /\ UNCHANGED <<file, finalNewline, fpos, total_lines, processed,
                   successful, buffer, calls>>

\* written = fwrite(buffer->data, 1, buffer->size, out);
\* if (written != buffer->size) { fclose(out); goto cleanup; }  -- return 1
\* fflush(out); fclose(out); ... return 0;
WriteBuffer ==
    /\ pc = "fwrite"
    /\ \E written \in WriteCounts(Len(buffer)) :
          /\ out' = [exists |-> TRUE, data |-> SubSeq(buffer, 1, written)]
          /\ Return(IF written # Len(buffer) THEN 1 ELSE 0)
    /\ UNCHANGED governorVars
    /\ UNCHANGED <<file, finalNewline, fpos, total_lines, processed,
                   successful, buffer, calls>>

Next ==
    \/ OpenInput
    \/ CountLines
    \/ SkipHeader
    \/ PackEnvelope
    \/ StreamRow
    \/ EndOfInput
    \/ OpenOutput
    \/ WriteBuffer

Spec == Init /\ [][Next]_vars

\* The same run of process_stop_times over the inputs of FilesBeyondBuffer.
InitBeyondBuffer ==
    /\ file \in FilesBeyondBuffer
    /\ finalNewline \in BOOLEAN
    /\ out \in {NoFile, OldFile}
    /\ pc = "open"
    /\ fpos = 0
    /\ total_lines = 0
    /\ processed = 0
    /\ successful = 0
    /\ buffer = <<>>
    /\ calls = <<>>
    /\ result = -1
    /\ cpu_limit = DEFAULT_CPU_LIMIT
    /\ now = 0
    /\ cpu = 0
    /\ GovernorStatics

SpecBeyondBuffer == InitBeyondBuffer /\ [][Next]_vars

\* --------------------------------------------------------------- limit_cpu
\* if (cpu_usage > cpu_limit), with cpu_usage = (time_diff / real_diff) * 100
\* and real_diff > 0: the comparison, free of the division.
UsageExceeds(time_diff, real_diff, limit) ==
    time_diff * 100 > limit * real_diff

\* if (sleep_time > 0), with sleep_time = (long)((time_diff * 100 / cpu_limit
\* - real_diff) * 1000000 * overage_factor) microseconds and overage_factor =
\* cpu_usage / cpu_limit: with the times in milliseconds the product is
\* n * 1000 / d microseconds, and its truncation is positive when it reaches 1.
SleepTimePositive(time_diff, real_diff, limit) ==
    LET n == (time_diff * 100 - real_diff * limit) * time_diff * 100
        d == limit * limit * real_diff
    IN  n >= (d + 999) \div 1000

\* The throttle with the ceiling fixed at DEFAULT_CPU_LIMIT, whatever the
\* caller passed.
CallsPlatformSleep_default_limit(time_diff, real_diff, limit) ==
    /\ UsageExceeds(time_diff, real_diff, DEFAULT_CPU_LIMIT)
    /\ SleepTimePositive(time_diff, real_diff, DEFAULT_CPU_LIMIT)

\* Whether an observation with these differences calls platform_sleep.
CallsPlatformSleep(time_diff, real_diff, limit) ==
    /\ UsageExceeds(time_diff, real_diff, limit)
    /\ SleepTimePositive(time_diff, real_diff, limit)

\* limit_cpu past its early return: cpu_time is sampled; if last_cpu_time > 0
\* the usage is computed, debug_counter moves and the call may sleep; then
\* last_check = now and last_cpu_time = cpu_time.  The time a sleep takes
\* passes in the clock's own steps, with no CPU time used.
Observe ==
    LET computing == last_cpu_time > 0
        time_diff == cpu - last_cpu_time
        real_diff == now - last_check
    IN  /\ measured' = IF computing THEN <<time_diff, real_diff>> ELSE measured
        /\ debug_counter' =
              IF ~computing THEN debug_counter
              ELSE IF debug_counter + 1 >= debug_period THEN 0
              ELSE debug_counter + 1
        /\ last_call' =
              IF computing /\ CallsPlatformSleep(time_diff, real_diff, cpu_limit)
              THEN "slept" ELSE "observed"
        /\ last_check' = now
        /\ last_cpu_time' = cpu

\* limit_cpu without its early return: every call observes.
LimitCpu_always_observes ==
    /\ Observe
    /\ UNCHANGED <<cpu_limit, now, cpu>>
    /\ UNCHANGED pipelineVars

\* void limit_cpu(int cpu_limit): if (now - last_check < 0.1) return;
LimitCpu ==
    /\ IF now - last_check < check_interval_ms
       THEN /\ last_call' = "skipped"
            /\ UNCHANGED <<last_check, last_cpu_time, debug_counter, measured>>
       ELSE Observe
    /\ UNCHANGED <<cpu_limit, now, cpu>>
    /\ UNCHANGED pipelineVars

\* The steps of the wall clock between two calls, in milliseconds.
WallSteps == {40, 100, 150}

\* Time passes: the wall clock moves on, and the user CPU time of the
\* single-threaded process by no more than the wall clock.
Advance ==
    /\ \E dw \in WallSteps :
          /\ now + dw <= MaxClock
          /\ now' = now + dw
          /\ \E dc \in {0, dw \div 2, dw} : cpu' = cpu + dc
    /\ UNCHANGED <<cpu_limit, last_check, last_cpu_time, debug_counter,
                   measured, last_call>>
    /\ UNCHANGED pipelineVars

\* The ceilings main accepts: 1..100, DEFAULT_CPU_LIMIT when none is given.
CpuLimits == {1, DEFAULT_CPU_LIMIT, 100}

\* limit_cpu called at any time from a process that does nothing else: the
\* pipeline stays where Init puts it on an empty input.
InitGovernor ==
    /\ file = <<>>
    /\ finalNewline = FALSE
    /\ out = NoFile
    /\ pc = "open"
    /\ fpos = 0
    /\ total_lines = 0
    /\ processed = 0
    /\ successful = 0
    /\ buffer = <<>>
    /\ calls = <<>>
    /\ result = -1
    /\ cpu_limit \in CpuLimits
    /\ now \in {60, 200}
    /\ cpu \in {0, 20}
    /\ GovernorStatics

NextGovernor ==
    \/ LimitCpu
    \/ Advance

SpecGovernor == InitGovernor /\ [][NextGovernor]_vars

\* ------------------------------------------------------- reading the state
\* The data lines the streaming loop has consumed so far, in reading order.
ReadRows == SubSeq(Lines, 2, fpos)

\* The items that follow the envelope in the buffer.
Payload == SubSeq(buffer, 4, Len(buffer))

\* Number of record headers (maps of five entries) appended after the
\* envelope.
RecordCount == Cardinality({j \in 4..Len(buffer) : buffer[j] = msgpack_map(5)})

\* The array length the envelope declares.
DeclaredLength == buffer[3].n

\* The item packed right after key in the record that ends the buffer.
LastRecord == SubSeq(buffer, Len(buffer) - 10, Len(buffer))
ValueUnder(rec, key) ==
    rec[(CHOOSE j \in 1..Len(rec) : rec[j] = msgpack_str(key) /\ j % 2 = 0) + 1]

\* The text of 0-based column c of a data line, as parse_csv_line cuts it.
ColumnText(line, c) ==
    LET fields == parse_csv_line(line)
    IN  IF c >= 0 /\ c < Len(fields) THEN fields[c + 1] ELSE <<>>

\* The streaming loop has just handled a line, and process_line took it.
JustAccepted ==
    pc = "stream" /\ processed > 0 /\ process_line(Lines[fpos]).ret = 0

\* The header line names all five required columns.
HeaderValid == Lines # <<>> /\ get_column_indices(Lines[1]).ret = 0

\* The header is valid and gives each name the column process_line reads it
\* from, so that the header and the code agree on where every field is.
HeaderAgrees ==
    HeaderValid /\ get_column_indices(Lines[1]).indices = process_line_columns

\* The 0-based column the header gives for stop_sequence.
StopSequenceColumn == get_column_indices(Lines[1]).indices[5]

\* A base-10 non-negative integer: a non-empty run of decimal digits, an
\* optional plus sign before it.
IsNonNegativeInteger(t) ==
    LET d == IF t # <<>> /\ Head(t) = "+" THEN Tail(t) ELSE t
    IN  d # <<>> /\ \A i \in 1..Len(d) : IsDigit(d[i])

\* -------------------------------------------------------------------- C1
\* C1: when process_stop_times returns 0 on an input with a valid header, the
\* array length declared in the envelope equals the number of records
\* appended to the buffer, which is the number of rows that passed validation.
C1_DeclaredLengthIsRecordCount ==
    (HeaderAgrees /\ pc = "done" /\ result = 0) =>
        /\ RecordCount = successful
        /\ DeclaredLength = RecordCount

\* -------------------------------------------------------------------- C2
\* C2: with a header line lacking one of the five required names no data row
\* is processed, the output path is left as it was, and the run does not
\* return 0.
C2_MissingColumnFailsEarly ==
    (Lines # <<>> /\ get_column_indices(Lines[1]).ret = -1) =>
        /\ processed = 0
        /\ out \in {NoFile, OldFile}
        /\ (pc = "done" => result # 0)

\* -------------------------------------------------------------------- C3
\* C3: whatever the order of the five names in the header, the record of an
\* accepted row stores under each key the text of the column whose header
\* token is that key (and under stop_sequence the integer of that column).
C3_ValuesFollowHeader ==
    (/\ HeaderValid
     /\ JustAccepted
     /\ IsNonNegativeInteger(ColumnText(Lines[fpos], StopSequenceColumn))) =>
        LET idx == get_column_indices(Lines[1]).indices
            line == Lines[fpos]
        IN  /\ \A i \in 1..4 :
                  ValueUnder(LastRecord, column_names[i]).s
                      = ColumnText(line, idx[i])
            /\ ValueUnder(LastRecord, k_stop_sequence).v
                  = strtol(ColumnText(line, idx[5])).mag

\* -------------------------------------------------------------------- C4
\* C4: a row that fails validation does not end the run: while streaming,
\* every line read so far has been processed and nothing was returned; the
\* output is only opened once every data line was processed; a run that
\* returns after the envelope was packed has processed every data line; and
\* it returns 0 when the whole buffer reached the output file.
C4_RejectedRowNeverAborts ==
    /\ (pc = "stream" => result = -1 /\ processed = fpos - 1)
    /\ (pc \in {"open_out", "fwrite"} =>
            result = -1 /\ processed = Len(Lines) - 1)
    /\ (pc = "done" /\ buffer # <<>> => processed = Len(Lines) - 1)
    /\ (pc = "done" /\ buffer # <<>> /\ out.exists /\ out.data = buffer =>
            result = 0)

\* A run on a valid header that returned 0 although its first data row was
\* rejected, the row after it having been accepted.
C4_Witness ==
    /\ HeaderAgrees
    /\ pc = "done" /\ result = 0
    /\ Len(Lines) = 3
    /\ process_line(Lines[2]).ret = -1
    /\ process_line(Lines[3]).ret = 0
    /\ processed = 2 /\ successful = 1

\* -------------------------------------------------------------------- C5
\* C5: a row is accepted only if its stop_sequence field is a non-empty run
\* of decimal digits (an optional sign aside); an empty field is rejected.
C5_SequenceMustBeInteger ==
    (HeaderAgrees /\ JustAccepted) =>
        IsNonNegativeInteger(ColumnText(Lines[fpos], StopSequenceColumn))

\* -------------------------------------------------------------------- C6
\* C6: a row whose trip_id or stop_id exceeds 63 bytes, or whose arrival_time
\* or departure_time exceeds 15 bytes, leaves no record in the output: the
\* records are at most as many as the rows read that respect the ceilings.
TooLong(line) ==
    LET idx == get_column_indices(Lines[1]).indices
    IN  \/ Len(ColumnText(line, idx[1])) > id_size - 1
        \/ Len(ColumnText(line, idx[2])) > id_size - 1
        \/ Len(ColumnText(line, idx[3])) > time_size - 1
        \/ Len(ColumnText(line, idx[4])) > time_size - 1

C6_OverlongRowRejected ==
    (HeaderAgrees /\ buffer # <<>>) =>
        RecordCount
            <= Cardinality({i \in 1..Len(ReadRows) : ~TooLong(ReadRows[i])})

\* -------------------------------------------------------------------- C7
\* C7: the records follow the envelope in the order their rows were read:
\* the buffer holds, after the envelope, exactly the records of the accepted
\* rows read so far, each once, in reading order.
RECURSIVE RecordsInOrder(_)
RecordsInOrder(lines) ==
    IF lines = <<>> THEN <<>>
    ELSE process_line(Head(lines)).items \o RecordsInOrder(Tail(lines))

C7_RecordsInReadingOrder ==
    buffer # <<>> => Payload = RecordsInOrder(ReadRows)

\* A finished run whose two data rows were both accepted and differ.
C7_Witness ==
    /\ HeaderAgrees
    /\ pc = "done" /\ result = 0
    /\ successful = 2
    /\ Lines[2] # Lines[3]
    /\ SubSeq(buffer, 4, 14) = process_line(Lines[2]).items
    /\ SubSeq(buffer, 15, 25) = process_line(Lines[3]).items

\* -------------------------------------------------------------------- C8
\* C8: a run that returns failure leaves the output path without a file or
\* with its previous content, and a run returns 0 only when the file holds
\* the whole buffer.
C8_OutputAllOrNothing ==
    HeaderAgrees =>
        /\ (pc = "done" /\ result = 1 => out \in {NoFile, OldFile})
        /\ (pc = "done" /\ result = 0 => out.exists /\ out.data = buffer)

\* -------------------------------------------------------------------- C9
\* C9: a line holding a quoted field whose opening quote is never closed is
\* rejected, wherever that field stands in the line.
\* HasOpenQuote follows the field boundaries of parse_csv_line and says
\* whether some field opens with a quote that no later quote closes.
RECURSIVE HasOpenQuote(_, _)
HasOpenQuote(line, start) ==
    IF At(line, start) = NUL THEN FALSE
    ELSE LET s == SkipBlanks(line, start) IN
         IF At(line, s) = QUOTE
         THEN LET e == FindClosingQuote(line, s + 1) IN
              IF At(line, e) = NUL THEN TRUE
              ELSE HasOpenQuote(line, SkipToDelimiter(line, e + 1))
         ELSE LET e == FindFieldEnd(line, s) IN
              IF At(line, e) = NUL THEN FALSE
              ELSE HasOpenQuote(line, e + 1)

C9_OpenQuoteRejected ==
    (/\ HeaderAgrees
     /\ pc = "stream" /\ processed > 0
     /\ HasOpenQuote(Lines[fpos], 1)) =>
        process_line(Lines[fpos]).ret = -1

\* ------------------------------------------------------------------- C10
\* C10: in each turn of the streaming loop limit_cpu is called before the row
\* is parsed, and the row is parsed before the progress report.
Before(a, b) ==
    \E i, j \in 1..Len(calls) : i < j /\ calls[i] = a /\ calls[j] = b

C10_GovernorBeforeParse ==
    (HeaderAgrees /\ pc = "stream" /\ processed > 0) =>
        /\ Before("limit_cpu", "process_line")
        /\ Before("process_line", "time")

\* ------------------------------------------------------------------- C11
\* C11: with a ceiling of 100 no call of limit_cpu sleeps, whatever the wall
\* clock and CPU time it samples (the CPU time of the single-threaded process
\* never gaining more than the wall clock).
C11_NoSleepAtCeiling100 ==
    cpu_limit = 100 => last_call # "slept"

\* The ceiling is 100 and the latest call has just measured the process at
\* full use of the CPU over at least an interval, and did not sleep.
C11_Witness ==
    /\ cpu_limit = 100
    /\ last_call = "observed"
    /\ last_check = now
    /\ measured[2] >= check_interval_ms
    /\ measured[1] = measured[2]

\* ------------------------------------------------------------------- C12
\* C12: a call of limit_cpu made less than 100 ms after the last observation
\* leaves last_check, last_cpu_time and debug_counter as they were and does
\* not sleep; a call made 100 ms or more after it samples, sets last_check to
\* now and last_cpu_time to the CPU time, and may sleep.
\* (A step that leaves both clocks alone is a call of limit_cpu.)
C12_ShortIntervalIsNoOp ==
    [][ (now' = now /\ cpu' = cpu) =>
          /\ (now - last_check < check_interval_ms) =>
                /\ last_check' = last_check
                /\ last_cpu_time' = last_cpu_time
                /\ debug_counter' = debug_counter
                /\ last_call' = "skipped"
          /\ (now - last_check >= check_interval_ms) =>
                /\ last_check' = now
                /\ last_cpu_time' = cpu
                /\ last_call' \in {"observed", "slept"} ]_vars

\* A call was skipped less than 100 ms after an observation that sampled a
\* positive CPU time.
C12_Witness ==
    /\ last_call = "skipped"
    /\ last_check > 0
    /\ last_cpu_time > 0
    /\ now > last_check
    /\ now - last_check < check_interval_ms

\* ------------------------------------------------------------------- C13
\* The two validation failures of process_line: fewer than min_fields
\* fields, or a stop_sequence strtol does not take whole and in range.
RejectedByValidation(line) ==
    LET fields == parse_csv_line(line)
    IN  \/ Len(fields) < min_fields
        \/ seq_invalid(strtol(fields[5]))

\* The buffer is the envelope followed by whole records only: every map
\* header stands at the start of an eleven-item record.
WholeRecords ==
    /\ Len(buffer) >= 3
    /\ (Len(buffer) - 3) % 11 = 0
    /\ \A j \in 4..Len(buffer) :
          (buffer[j] = msgpack_map(5)) <=> ((j - 4) % 11 = 0)

\* C13: a step of the streaming loop over a row that fails validation (fewer
\* than five fields, or an invalid stop_sequence) leaves the encoder buffer
\* exactly as it was, so the buffer holds whole records only afterwards.
C13_RejectedRowLeavesBuffer ==
    [][ (pc = "stream" /\ fpos' = fpos + 1
           /\ RejectedByValidation(Lines[fpos + 1])) =>
          /\ buffer' = buffer
          /\ successful' = successful
          /\ WholeRecords' ]_vars

\* A row with five fields and an invalid stop_sequence has just been
\* rejected after an earlier row was encoded: the buffer still holds the
\* envelope and that one record.
C13_Witness ==
    /\ pc = "stream"
    /\ HeaderAgrees
    /\ fpos >= 3
    /\ Len(parse_csv_line(Lines[fpos])) >= min_fields
    /\ RejectedByValidation(Lines[fpos])
    /\ successful = 1
    /\ processed = 2
    /\ Len(buffer) = 14

\* ------------------------------------------------------------------- C14
\* C14: all through the streaming loop successful <= processed <=
\* total_lines, and once the loop has ended processed = total_lines: the
\* counting pass less the header and the streaming pass see the same fgets
\* lines, a physical line longer than the line buffer counting once per piece
\* in both.
C14_CountersWithinTotal ==
    /\ pc = "stream" =>
          /\ successful <= processed
          /\ processed <= total_lines
    /\ pc \in {"open_out", "fwrite"} =>
          /\ successful <= processed
          /\ processed = total_lines

\* The loop has ended on an input with a physical line longer than the line
\* buffer: more lines were processed than the file has rows, as many as were
\* counted, one piece of the long line encoded and one rejected.
C14_Witness ==
    /\ pc = "open_out"
    /\ \E k \in 2..Len(file) : Len(file[k]) >= line_size
    /\ processed > Len(file) - 1
    /\ processed = total_lines
    /\ successful >= 1
    /\ successful < processed

====
